---- MODULE Spec2Model ----
(***************************************************************************)
(* XShaderCompiler front-end core: the type denoter algebra                *)
(* (Compiler/AST/TypeDenoter.cpp) and the HLSL keyword tables              *)
(* (Compiler/Frontend/HLSL/HLSLKeywords.cpp).                              *)
(*                                                                         *)
(* Strings of the program are TLA+ strings; enumerators (DataType,         *)
(* TypeDenoter::Types, StorageClass, BufferType, Token::Types) are the     *)
(* strings of their names.  A type denoter is a record whose field "type"  *)
(* is the value its Type() override returns and whose other fields are the *)
(* members of its class.                                                   *)
(***************************************************************************)
EXTENDS Integers, Sequences, FiniteSets

VARIABLES
    self,       \* the denoter a TypeDenoter method is called on
    rhs,        \* the denoter passed as rhs / targetType
    method,     \* the TypeDenoter method called last ("none" before any call)
    ret,        \* what that call returned
    typeMap,    \* the function-local static tables of HLSLKeywords.cpp
    kwFunc,     \* the HLSLKeywordTo... function called last ("none" before any)
    keyword,    \* the spelling passed to it
    kwRet,      \* how that call ended: a returned value or a thrown error
    ifBlockStack_,  \* the pre-processor's stack of if-blocks, the top last
    wasActive,      \* for each if-block: a branch of its group before the current one was active
    directives,     \* the conditional directives accepted so far, in order
    ppState,        \* "running", "failed" after an error, "done" after the end of the input
    ppError         \* the error that ended the run, and the directive it was raised at

\* the variables of the pre-processor
ppVars == <<ifBlockStack_, wasActive, directives, ppState, ppError>>

vars == <<self, rhs, method, ret, typeMap, kwFunc, keyword, kwRet,
          ifBlockStack_, wasActive, directives, ppState, ppError>>

(***************************************************************************)
(* Bounds of the model.                                                    *)
(***************************************************************************)
\* longest list of array dimensions of a generated Array denoter
MaxArrayDims == 2
\* largest constant array dimension (0 stands for a dimension of unknown size)
MaxDimValue == 1

(***************************************************************************)
(* HLSLKeywords.cpp: the tables.                                           *)
(***************************************************************************)
(* The initializer list of the keyword map: spelling, Token::Types enumerator. *)
GenerateKeywordMap ==
    << <<"true", "BoolLiteral">>,
       <<"false", "BoolLiteral">>,
       <<"string", "StringType">>,
       <<"bool", "ScalarType">>,
       <<"bool1", "ScalarType">>,
       <<"bool1x1", "ScalarType">>,
       <<"int", "ScalarType">>,
       <<"int1", "ScalarType">>,
       <<"int1x1", "ScalarType">>,
       <<"uint", "ScalarType">>,
       <<"uint1", "ScalarType">>,
       <<"uint1x1", "ScalarType">>,
       <<"dword", "ScalarType">>,
       <<"dword1", "ScalarType">>,
       <<"dword1x1", "ScalarType">>,
       <<"half", "ScalarType">>,
       <<"half1", "ScalarType">>,
       <<"half1x1", "ScalarType">>,
       <<"float", "ScalarType">>,
       <<"float1", "ScalarType">>,
       <<"float1x1", "ScalarType">>,
       <<"double", "ScalarType">>,
       <<"double1", "ScalarType">>,
       <<"double1x1", "ScalarType">>,
       <<"bool2", "VectorType">>,
       <<"bool3", "VectorType">>,
       <<"bool4", "VectorType">>,
       <<"int2", "VectorType">>,
       <<"int3", "VectorType">>,
       <<"int4", "VectorType">>,
       <<"uint2", "VectorType">>,
       <<"uint3", "VectorType">>,
       <<"uint4", "VectorType">>,
       <<"dword2", "VectorType">>,
       <<"dword3", "VectorType">>,
       <<"dword4", "VectorType">>,
       <<"half2", "VectorType">>,
       <<"half3", "VectorType">>,
       <<"half4", "VectorType">>,
       <<"float2", "VectorType">>,
       <<"float3", "VectorType">>,
       <<"float4", "VectorType">>,
       <<"double2", "VectorType">>,
       <<"double3", "VectorType">>,
       <<"double4", "VectorType">>,
       <<"bool2x2", "MatrixType">>,
       <<"bool2x3", "MatrixType">>,
       <<"bool2x4", "MatrixType">>,
       <<"bool3x2", "MatrixType">>,
       <<"bool3x3", "MatrixType">>,
       <<"bool3x4", "MatrixType">>,
       <<"bool4x2", "MatrixType">>,
       <<"bool4x3", "MatrixType">>,
       <<"bool4x4", "MatrixType">>,
       <<"int2x2", "MatrixType">>,
       <<"int2x3", "MatrixType">>,
       <<"int2x4", "MatrixType">>,
       <<"int3x2", "MatrixType">>,
       <<"int3x3", "MatrixType">>,
       <<"int3x4", "MatrixType">>,
       <<"int4x2", "MatrixType">>,
       <<"int4x3", "MatrixType">>,
       <<"int4x4", "MatrixType">>,
       <<"uint2x2", "MatrixType">>,
       <<"uint2x3", "MatrixType">>,
       <<"uint2x4", "MatrixType">>,
       <<"uint3x2", "MatrixType">>,
       <<"uint3x3", "MatrixType">>,
       <<"uint3x4", "MatrixType">>,
       <<"uint4x2", "MatrixType">>,
       <<"uint4x3", "MatrixType">>,
       <<"uint4x4", "MatrixType">>,
       <<"dword2x2", "MatrixType">>,
       <<"dword2x3", "MatrixType">>,
       <<"dword2x4", "MatrixType">>,
       <<"dword3x2", "MatrixType">>,
       <<"dword3x3", "MatrixType">>,
       <<"dword3x4", "MatrixType">>,
       <<"dword4x2", "MatrixType">>,
       <<"dword4x3", "MatrixType">>,
       <<"dword4x4", "MatrixType">>,
       <<"half2x2", "MatrixType">>,
       <<"half2x3", "MatrixType">>,
       <<"half2x4", "MatrixType">>,
       <<"half3x2", "MatrixType">>,
       <<"half3x3", "MatrixType">>,
       <<"half3x4", "MatrixType">>,
       <<"half4x2", "MatrixType">>,
       <<"half4x3", "MatrixType">>,
       <<"half4x4", "MatrixType">>,
       <<"float2x2", "MatrixType">>,
       <<"float2x3", "MatrixType">>,
       <<"float2x4", "MatrixType">>,
       <<"float3x2", "MatrixType">>,
       <<"float3x3", "MatrixType">>,
       <<"float3x4", "MatrixType">>,
       <<"float4x2", "MatrixType">>,
       <<"float4x3", "MatrixType">>,
       <<"float4x4", "MatrixType">>,
       <<"double2x2", "MatrixType">>,
       <<"double2x3", "MatrixType">>,
       <<"double2x4", "MatrixType">>,
       <<"double3x2", "MatrixType">>,
       <<"double3x3", "MatrixType">>,
       <<"double3x4", "MatrixType">>,
       <<"double4x2", "MatrixType">>,
       <<"double4x3", "MatrixType">>,
       <<"double4x4", "MatrixType">>,
       <<"void", "Void">>,
       <<"vector", "Vector">>,
       <<"matrix", "Matrix">>,
       <<"do", "Do">>,
       <<"while", "While">>,
       <<"for", "For">>,
       <<"if", "If">>,
       <<"else", "Else">>,
       <<"switch", "Switch">>,
       <<"case", "Case">>,
       <<"default", "Default">>,
       <<"typedef", "Typedef">>,
       <<"struct", "Struct">>,
       <<"register", "Register">>,
       <<"packoffset", "PackOffset">>,
       <<"sampler", "Sampler">>,
       <<"sampler1D", "Sampler">>,
       <<"sampler2D", "Sampler">>,
       <<"sampler3D", "Sampler">>,
       <<"samplerCUBE", "Sampler">>,
       <<"sampler_state", "Sampler">>,
       <<"SamplerState", "Sampler">>,
       <<"SamplerComparisonState", "Sampler">>,
       <<"Texture1D", "Texture">>,
       <<"Texture1DArray", "Texture">>,
       <<"Texture2D", "Texture">>,
       <<"Texture2DArray", "Texture">>,
       <<"Texture3D", "Texture">>,
       <<"TextureCube", "Texture">>,
       <<"TextureCubeArray", "Texture">>,
       <<"Texture2DMS", "Texture">>,
       <<"Texture2DMSArray", "Texture">>,
       <<"RWTexture1D", "Texture">>,
       <<"RWTexture1DArray", "Texture">>,
       <<"RWTexture2D", "Texture">>,
       <<"RWTexture2DArray", "Texture">>,
       <<"RWTexture3D", "Texture">>,
       <<"Buffer", "StorageBuffer">>,
       <<"StructuredBuffer", "StorageBuffer">>,
       <<"ByteAddressBuffer", "StorageBuffer">>,
       <<"RWBuffer", "StorageBuffer">>,
       <<"RWByteAddressBuffer", "StorageBuffer">>,
       <<"RWStructuredBuffer", "StorageBuffer">>,
       <<"AppendStructuredBuffer", "StorageBuffer">>,
       <<"ConsumeStructuredBuffer", "StorageBuffer">>,
       <<"cbuffer", "UniformBuffer">>,
       <<"tbuffer", "UniformBuffer">>,
       <<"break", "CtrlTransfer">>,
       <<"continue", "CtrlTransfer">>,
       <<"discard", "CtrlTransfer">>,
       <<"return", "Return">>,
       <<"uniform", "InputModifier">>,
       <<"in", "InputModifier">>,
       <<"out", "InputModifier">>,
       <<"inout", "InputModifier">>,
       <<"extern", "StorageModifier">>,
       <<"nointerpolation", "StorageModifier">>,
       <<"precise", "StorageModifier">>,
       <<"shared", "StorageModifier">>,
       <<"groupshared", "StorageModifier">>,
       <<"static", "StorageModifier">>,
       <<"volatile", "StorageModifier">>,
       <<"linear", "StorageModifier">>,
       <<"centroid", "StorageModifier">>,
       <<"noperspective", "StorageModifier">>,
       <<"sample", "StorageModifier">>,
       <<"const", "TypeModifier">>,
       <<"row_major", "TypeModifier">>,
       <<"column_major", "TypeModifier">>,
       <<"technique", "Technique">>,
       <<"pass", "Pass">>,
       <<"compile", "Compile">>,
       <<"auto", "Reserved">>,
       <<"catch", "Reserved">>,
       <<"char", "Reserved">>,
       <<"const_cast", "Reserved">>,
       <<"delete", "Reserved">>,
       <<"dynamic_cast", "Reserved">>,
       <<"enum", "Reserved">>,
       <<"explicit", "Reserved">>,
       <<"friend", "Reserved">>,
       <<"goto", "Reserved">>,
       <<"long", "Reserved">>,
       <<"mutable", "Reserved">>,
       <<"new", "Reserved">>,
       <<"operator", "Reserved">>,
       <<"private", "Reserved">>,
       <<"protected", "Reserved">>,
       <<"public", "Reserved">>,
       <<"reinterpret_cast", "Reserved">>,
       <<"short", "Reserved">>,
       <<"signed", "Reserved">>,
       <<"sizeof", "Reserved">>,
       <<"static_cast", "Reserved">>,
       <<"template", "Reserved">>,
       <<"this", "Reserved">>,
       <<"throw", "Reserved">>,
       <<"try", "Reserved">>,
       <<"typename", "Reserved">>,
       <<"union", "Reserved">>,
       <<"unsigned", "Reserved">>,
       <<"using", "Reserved">>,
       <<"virtual", "Reserved">> >>

\* GenerateDataTypeMap, the scalar spellings and their aliases
DataTypeMapScalars ==
    << <<"bool", "Bool">>,
       <<"bool1", "Bool">>,
       <<"bool1x1", "Bool">>,
       <<"int", "Int">>,
       <<"int1", "Int">>,
       <<"int1x1", "Int">>,
       <<"uint", "UInt">>,
       <<"uint1", "UInt">>,
       <<"uint1x1", "UInt">>,
       <<"dword", "UInt">>,
       <<"dword1", "UInt">>,
       <<"dword1x1", "UInt">>,
       <<"half", "Half">>,
       <<"half1", "Half">>,
       <<"half1x1", "Half">>,
       <<"float", "Float">>,
       <<"float1", "Float">>,
       <<"float1x1", "Float">>,
       <<"double", "Double">>,
       <<"double1", "Double">>,
       <<"double1x1", "Double">> >>

\* GenerateDataTypeMap, the vector spellings
DataTypeMapVectors ==
    << <<"bool2", "Bool2">>,
       <<"bool3", "Bool3">>,
       <<"bool4", "Bool4">>,
       <<"int2", "Int2">>,
       <<"int3", "Int3">>,
       <<"int4", "Int4">>,
       <<"uint2", "UInt2">>,
       <<"uint3", "UInt3">>,
       <<"uint4", "UInt4">>,
       <<"dword2", "UInt2">>,
       <<"dword3", "UInt3">>,
       <<"dword4", "UInt4">>,
       <<"half2", "Half2">>,
       <<"half3", "Half3">>,
       <<"half4", "Half4">>,
       <<"float2", "Float2">>,
       <<"float3", "Float3">>,
       <<"float4", "Float4">>,
       <<"double2", "Double2">>,
       <<"double3", "Double3">>,
       <<"double4", "Double4">> >>

\* GenerateDataTypeMap, the matrix spellings
DataTypeMapMatrices ==
    << <<"bool2x2", "Bool2x2">>,
       <<"bool2x3", "Bool2x3">>,
       <<"bool2x4", "Bool2x4">>,
       <<"bool3x2", "Bool3x2">>,
       <<"bool3x3", "Bool3x3">>,
       <<"bool3x4", "Bool3x4">>,
       <<"bool4x2", "Bool4x2">>,
       <<"bool4x3", "Bool4x3">>,
       <<"bool4x4", "Bool4x4">>,
       <<"int2x2", "Int2x2">>,
       <<"int2x3", "Int2x3">>,
       <<"int2x4", "Int2x4">>,
       <<"int3x2", "Int3x2">>,
       <<"int3x3", "Int3x3">>,
       <<"int3x4", "Int3x4">>,
       <<"int4x2", "Int4x2">>,
       <<"int4x3", "Int4x3">>,
       <<"int4x4", "Int4x4">>,
       <<"uint2x2", "UInt2x2">>,
       <<"uint2x3", "UInt2x3">>,
       <<"uint2x4", "UInt2x4">>,
       <<"uint3x2", "UInt3x2">>,
       <<"uint3x3", "UInt3x3">>,
       <<"uint3x4", "UInt3x4">>,
       <<"uint4x2", "UInt4x2">>,
       <<"uint4x3", "UInt4x3">>,
       <<"uint4x4", "UInt4x4">>,
       <<"dword2x2", "UInt2x2">>,
       <<"dword2x3", "UInt2x3">>,
       <<"dword2x4", "UInt2x4">>,
       <<"dword3x2", "UInt3x2">>,
       <<"dword3x3", "UInt3x3">>,
       <<"dword3x4", "UInt3x4">>,
       <<"dword4x2", "UInt4x2">>,
       <<"dword4x3", "UInt4x3">>,
       <<"dword4x4", "UInt4x4">>,
       <<"half2x2", "Half2x2">>,
       <<"half2x3", "Half2x3">>,
       <<"half2x4", "Half2x4">>,
       <<"half3x2", "Half3x2">>,
       <<"half3x3", "Half3x3">>,
       <<"half3x4", "Half3x4">>,
       <<"half4x2", "Half4x2">>,
       <<"half4x3", "Half4x3">>,
       <<"half4x4", "Half4x4">>,
       <<"float2x2", "Float2x2">>,
       <<"float2x3", "Float2x3">>,
       <<"float2x4", "Float2x4">>,
       <<"float3x2", "Float3x2">>,
       <<"float3x3", "Float3x3">>,
       <<"float3x4", "Float3x4">>,
       <<"float4x2", "Float4x2">>,
       <<"float4x3", "Float4x3">>,
       <<"float4x4", "Float4x4">>,
       <<"double2x2", "Double2x2">>,
       <<"double2x3", "Double2x3">>,
       <<"double2x4", "Double2x4">>,
       <<"double3x2", "Double3x2">>,
       <<"double3x3", "Double3x3">>,
       <<"double3x4", "Double3x4">>,
       <<"double4x2", "Double4x2">>,
       <<"double4x3", "Double4x3">>,
       <<"double4x4", "Double4x4">> >>

\* a slip: the dword vectors and matrices copied from the int rows unchanged
GenerateDataTypeMap_DwordAsInt ==
    LET AsInt(list) ==
            [i \in DOMAIN list |->
                IF list[i][1] \in {"dword2", "dword3x3"}
                THEN <<list[i][1], IF list[i][1] = "dword2" THEN "Int2" ELSE "Int3x3">>
                ELSE list[i]]
    IN  << <<"string", "String">> >>
            \o DataTypeMapScalars \o AsInt(DataTypeMapVectors) \o AsInt(DataTypeMapMatrices)

(* The initializer list of the data type map: spelling, DataType enumerator. *)
GenerateDataTypeMap ==
    << <<"string", "String">> >>
        \o DataTypeMapScalars \o DataTypeMapVectors \o DataTypeMapMatrices

(* The initializer list of the storage class map: spelling, StorageClass enumerator. *)
GenerateStorageClassMap ==
    << <<"extern", "Extern">>,
       <<"precise", "Precise">>,
       <<"shared", "Shared">>,
       <<"groupshared", "GroupShared">>,
       <<"static", "Static">>,
       <<"uniform", "Uniform">>,
       <<"volatile", "Volatile">>,
       <<"nointerpolation", "NoInterpolation">>,
       <<"linear", "Linear">>,
       <<"centroid", "Centroid">>,
       <<"noperspective", "NoPerspective">>,
       <<"sample", "Sample">> >>

(* The initializer list of the buffer type map: spelling, BufferType enumerator. *)
GenerateBufferTypeMap ==
    << <<"Buffer", "Buffer">>,
       <<"StucturedBuffer", "StucturedBuffer">>,
       <<"ByteAddressBuffer", "ByteAddressBuffer">>,
       <<"RWBuffer", "RWBuffer">>,
       <<"RWStucturedBuffer", "RWStucturedBuffer">>,
       <<"RWByteAddressBuffer", "RWByteAddressBuffer">>,
       <<"AppendStructuredBuffer", "AppendStructuredBuffer">>,
       <<"ConsumeStructuredBuffer", "ConsumeStructuredBuffer">>,
       <<"RWTexture1D", "RWTexture1D">>,
       <<"RWTexture1DArray", "RWTexture1DArray">>,
       <<"RWTexture2D", "RWTexture2D">>,
       <<"RWTexture2DArray", "RWTexture2DArray">>,
       <<"RWTexture3D", "RWTexture3D">>,
       <<"Texture1D", "Texture1D">>,
       <<"Texture1DArray", "Texture1DArray">>,
       <<"Texture2D", "Texture2D">>,
       <<"Texture2DArray", "Texture2DArray">>,
       <<"Texture3D", "Texture3D">>,
       <<"TextureCube", "TextureCube">>,
       <<"TextureCubeArray", "TextureCubeArray">>,
       <<"Texture2DMS", "Texture2DMS">>,
       <<"Texture2DMSArray", "Texture2DMSArray">> >>

(***************************************************************************)
(* The DataType enumeration and its predicates (ASTEnums).                 *)
(***************************************************************************)
\* the scalar base types, as the DataType enumerators name them
ScalarBaseNames == {"Bool", "Int", "UInt", "Half", "Float", "Double"}

\* the digits a vector or matrix enumerator is spelled with
DimDigit == [n \in 2..4 |-> IF n = 2 THEN "2" ELSE IF n = 3 THEN "3" ELSE "4"]

\* the enumerator of the vector of base b with n components, e.g. Float3
VectorTypeName(b, n) == b \o DimDigit[n]

\* the enumerator of the matrix of base b with m rows and n columns, e.g. Float4x4
MatrixTypeName(b, m, n) == b \o DimDigit[m] \o "x" \o DimDigit[n]

ScalarTypes == ScalarBaseNames

VectorTypes == {VectorTypeName(b, n) : b \in ScalarBaseNames, n \in 2..4}

MatrixTypes == {MatrixTypeName(b, mn[1], mn[2]) : b \in ScalarBaseNames, mn \in (2..4) \X (2..4)}

\* every enumerator of DataType: String, the scalars, the vectors, the matrices
DataTypes == {"String"} \cup ScalarTypes \cup VectorTypes \cup MatrixTypes

IsScalarType(t) == t \in ScalarTypes

IsVectorType(t) == t \in VectorTypes

IsMatrixType(t) == t \in MatrixTypes

\* the number of components of a vector type (1 for a scalar, 0 otherwise)
VectorTypeDim(t) ==
    IF t \in ScalarTypes THEN 1
    ELSE IF t \in VectorTypes
         THEN CHOOSE n \in 2..4 : \E b \in ScalarBaseNames : VectorTypeName(b, n) = t
         ELSE 0

\* the <<rows, columns>> of a matrix type (<<0, 0>> otherwise)
MatrixTypeDim(t) ==
    IF t \in MatrixTypes
    THEN CHOOSE mn \in (2..4) \X (2..4) :
             \E b \in ScalarBaseNames : MatrixTypeName(b, mn[1], mn[2]) = t
    ELSE <<0, 0>>

(***************************************************************************)
(* TypeDenoter.cpp: the denoters.                                          *)
(***************************************************************************)
\* TypeDenoter::Types
Types == {"Void", "Base", "Buffer", "Texture", "Sampler", "Struct", "Alias", "Array"}

\* a null pointer
NULL == [null |-> TRUE]

VoidTypeDenoter == [type |-> "Void"]

BaseTypeDenoter(dataType) == [type |-> "Base", dataType |-> dataType]

\* Buffer, Texture and Sampler denoters carry a classification
BufferTypeDenoter(bufferType) == [type |-> "Buffer", bufferType |-> bufferType]

TextureTypeDenoter(textureType) == [type |-> "Texture", textureType |-> textureType]

SamplerTypeDenoter(samplerType) == [type |-> "Sampler", samplerType |-> samplerType]

\* a struct declaration node, of which the denoter reads the name
StructDecl(name) == [name |-> name]

\* StructTypeDenoter(const std::string& ident)
StructTypeDenoterFromIdent(ident) ==
    [type |-> "Struct", ident |-> ident, structDeclRef |-> NULL]

\* StructTypeDenoter(StructDecl* structDeclRef)
StructTypeDenoterFromDecl(structDeclRef) ==
    [type |-> "Struct",
     ident |-> IF structDeclRef # NULL THEN structDeclRef.name ELSE "",
     structDeclRef |-> structDeclRef]

\* AliasTypeDenoter(const std::string& ident)
AliasTypeDenoter(ident) == [type |-> "Alias", ident |-> ident]

\* an Array denoter: the members baseTypeDenoter and arrayDims
ArrayTypeDenoter(baseTypeDenoter, arrayDims) ==
    [type |-> "Array", baseTypeDenoter |-> baseTypeDenoter, arrayDims |-> arrayDims]

(***************************************************************************)
(* TypeDenoter.cpp: the methods.  A virtual call dispatches on the class   *)
(* of the object, which is the value of its field "type".                  *)
(***************************************************************************)
\* Type(): each class returns its own enumerator
Type(d) == d.type

\* TypeDenoter::IsScalar, overridden by BaseTypeDenoter::IsScalar
IsScalar(d) == IF d.type = "Base" THEN IsScalarType(d.dataType) ELSE FALSE

\* TypeDenoter::IsVector, overridden by BaseTypeDenoter::IsVector
IsVector(d) == IF d.type = "Base" THEN IsVectorType(d.dataType) ELSE FALSE

\* TypeDenoter::IsMatrix, overridden by BaseTypeDenoter::IsMatrix
IsMatrix(d) == IF d.type = "Base" THEN IsMatrixType(d.dataType) ELSE FALSE

\* TypeDenoter::Ident, overridden by StructTypeDenoter::Ident and AliasTypeDenoter::Ident
Ident(d) == IF d.type \in {"Struct", "Alias"} THEN d.ident ELSE ""

\* TypeDenoter::Equals
TypeDenoter_Equals(d, r) == Type(d) = Type(r)

\* a slip: the comparison of base types written with the cast rule of scalars
BaseTypeDenoter_Equals_AsCast(d, r) ==
    IF IsScalar(d)
    THEN Type(r) = "Base" \/ Type(r) = "Struct"
    ELSE Type(r) = "Base" /\ d.dataType = r.dataType

\* BaseTypeDenoter::Equals
BaseTypeDenoter_Equals(d, r) == Type(r) = "Base" /\ d.dataType = r.dataType

\* d.Equals(r): only BaseTypeDenoter overrides Equals
Equals(d, r) ==
    IF d.type = "Base" THEN BaseTypeDenoter_Equals(d, r) ELSE TypeDenoter_Equals(d, r)

\* a slip: the default cast rule written as equality of the identifiers too
TypeDenoter_IsCastableTo_SameIdent(d, targetType) ==
    Type(d) = Type(targetType) /\ Ident(d) = Ident(targetType)

\* TypeDenoter::IsCastableTo
TypeDenoter_IsCastableTo(d, targetType) == Type(d) = Type(targetType)

\* a slip: Void left to the default rule of TypeDenoter
VoidTypeDenoter_IsCastableTo_Default(d, targetType) == Type(d) = Type(targetType)

\* VoidTypeDenoter::IsCastableTo
VoidTypeDenoter_IsCastableTo(d, targetType) == FALSE

\* a slip: a vector cast that does not compare the dimensions
BaseTypeDenoter_IsCastableTo_AnyVector(d, targetType) ==
    IF IsScalar(d)
    THEN Type(targetType) = "Base" \/ Type(targetType) = "Struct"
    ELSE IF IsVector(d)
    THEN IsVector(targetType)
    ELSE FALSE

\* a slip: a scalar cast that forgets the struct targets
BaseTypeDenoter_IsCastableTo_NoStruct(d, targetType) ==
    IF IsScalar(d)
    THEN Type(targetType) = "Base"
    ELSE IF IsVector(d)
    THEN IF IsVector(targetType)
         THEN VectorTypeDim(d.dataType) = VectorTypeDim(targetType.dataType)
         ELSE FALSE
    ELSE FALSE

\* BaseTypeDenoter::IsCastableTo; the matrix branch tests targetType.IsVector()
\* inside the branch that targetType.IsMatrix() guards
BaseTypeDenoter_IsCastableTo(d, targetType) ==
    IF IsScalar(d)
    THEN Type(targetType) = "Base" \/ Type(targetType) = "Struct"
    ELSE IF IsVector(d)
    THEN IF IsVector(targetType)
         THEN IsVector(targetType)
              /\ VectorTypeDim(d.dataType) = VectorTypeDim(targetType.dataType)
         ELSE FALSE
    ELSE IF IsMatrix(d)
    THEN IF IsMatrix(targetType)
         THEN IsVector(targetType)
              /\ MatrixTypeDim(d.dataType) = MatrixTypeDim(targetType.dataType)
         ELSE FALSE
    ELSE FALSE

\* d.IsCastableTo(targetType): VoidTypeDenoter and BaseTypeDenoter override it
IsCastableTo(d, targetType) ==
    IF d.type = "Void" THEN VoidTypeDenoter_IsCastableTo(d, targetType)
    ELSE IF d.type = "Base" THEN BaseTypeDenoter_IsCastableTo(d, targetType)
    ELSE TypeDenoter_IsCastableTo(d, targetType)

(***************************************************************************)
(* The denoters the methods are called on.                                 *)
(***************************************************************************)
\* identifiers of struct declarations ("" is an anonymous struct) and of typedefs
StructIdents == {"", "A", "B"}

AliasIdents == {"A", "Color"}

\* classifications of the Buffer, Texture and Sampler denoters
BufferClasses == {"Buffer", "RWStucturedBuffer"}

TextureClasses == {"Texture2D", "RWTexture3D"}

SamplerClasses == {"sampler2D", "SamplerState"}

\* one array dimension: a constant 1..MaxDimValue, or 0 for an unknown size
ArrayDimValues == 0..MaxDimValue

\* the lists of 1..MaxArrayDims dimensions
ArrayDimLists == UNION {[1..n -> ArrayDimValues] : n \in 1..MaxArrayDims}

StructTypeDenoters ==
    {StructTypeDenoterFromIdent(s) : s \in StructIdents}
        \cup {StructTypeDenoterFromDecl(NULL)}
        \cup {StructTypeDenoterFromDecl(StructDecl(s)) : s \in StructIdents \ {""}}

\* every denoter that is not an array
PlainTypeDenoters ==
    {VoidTypeDenoter}
        \cup {BaseTypeDenoter(t) : t \in DataTypes}
        \cup {BufferTypeDenoter(c) : c \in BufferClasses}
        \cup {TextureTypeDenoter(c) : c \in TextureClasses}
        \cup {SamplerTypeDenoter(c) : c \in SamplerClasses}
        \cup StructTypeDenoters
        \cup {AliasTypeDenoter(s) : s \in AliasIdents}

\* the inner denoters of the generated arrays
ArrayBaseTypeDenoters ==
    {BaseTypeDenoter("Float"), BaseTypeDenoter("Int3"), AliasTypeDenoter("Color")}

\* arrays that are the inner denoter of an array: j dimensions of unknown size
\* over an alias, and one over a null base type
InnerArrayTypeDenoters ==
    {ArrayTypeDenoter(AliasTypeDenoter("Color"), [i \in 1..j |-> 0]) : j \in 1..MaxArrayDims}
        \cup {ArrayTypeDenoter(NULL, <<0>>)}

\* arrays over a plain denoter, over no denoter (a null baseTypeDenoter), and
\* over an array
ArrayTypeDenoters ==
    {ArrayTypeDenoter(b, dims) :
        b \in ArrayBaseTypeDenoters \cup {NULL} \cup InnerArrayTypeDenoters,
        dims \in ArrayDimLists}

TypeDenoters == PlainTypeDenoters \cup ArrayTypeDenoters

(***************************************************************************)
(* HLSLKeywords.cpp: the lookups.                                          *)
(***************************************************************************)
\* the keys of an initializer list of pairs
Keys(list) == {list[i][1] : i \in DOMAIN list}

\* std::map built from an initializer list: of two pairs with one key the first stays
MakeMap(list) ==
    [k \in Keys(list) |->
        list[CHOOSE i \in DOMAIN list :
                 list[i][1] = k /\ \A j \in 1..(i - 1) : list[j][1] # k][2]]

\* how a call ends: return <value>, or throw std::runtime_error(<what>)
Returned(value) == [kind |-> "return", value |-> value]

Thrown(what) == [kind |-> "throw", what |-> what]

\* a slip: the lookup written with operator[], which yields a default value on a miss
MapKeywordToType_Default(map, kw, typeName) ==
    IF kw \in DOMAIN map THEN Returned(map[kw]) ELSE Returned("")

\* MapKeywordToType<T>(typeMap, keyword, typeName)
MapKeywordToType(map, kw, typeName) ==
    IF kw \in DOMAIN map
    THEN Returned(map[kw])
    ELSE Thrown("failed to map keyword '" \o kw \o "' to " \o typeName)

\* HLSLKeywords(): the keyword map
HLSLKeywords == MakeMap(GenerateKeywordMap)

\* the three lookup functions: the table their static typeMap is built as, and
\* the typeName they pass to MapKeywordToType
KeywordFuncs ==
    [HLSLKeywordToDataType |->
        [typeMap |-> MakeMap(GenerateDataTypeMap), typeName |-> "data type"],
     HLSLKeywordToStorageClass |->
        [typeMap |-> MakeMap(GenerateStorageClassMap), typeName |-> "storage class"],
     HLSLKeywordToBufferType |->
        [typeMap |-> MakeMap(GenerateBufferTypeMap), typeName |-> "buffer type"]]

\* a function-local static before the first call of its function
NotConstructed == [constructed |-> FALSE, entries |-> <<>>]

\* static const auto typeMap = Generate...Map(): built by the first call, kept by the others
StaticTypeMap(f, current) ==
    IF current.constructed
    THEN current
    ELSE [constructed |-> TRUE, entries |-> KeywordFuncs[f].typeMap]

\* spellings that are in no table
UnknownSpellings == {"", "foo", "Float", "float5", "float1x2", "dword5", "StorageBuffer"}

\* the spellings the lookups are called with: every key of every table, and others
Spellings ==
    Keys(GenerateKeywordMap) \cup Keys(GenerateDataTypeMap)
        \cup Keys(GenerateStorageClassMap) \cup Keys(GenerateBufferTypeMap)
        \cup UnknownSpellings

(***************************************************************************)
(* TypeDenoter.cpp: ToString.  A call ends as a call of the lookups does:  *)
(* it returns a string or throws std::runtime_error.                       *)
(***************************************************************************)
RECURSIVE ToString(_)

\* VoidTypeDenoter::ToString
VoidTypeDenoter_ToString(d) == Returned("void")

\* a slip: the texts of the vector and of the matrix exchanged
BaseTypeDenoter_ToString_Swapped(d) ==
    IF IsScalar(d) THEN Returned("scalar")
    ELSE IF IsVector(d) THEN Returned("matrix")
    ELSE IF IsMatrix(d) THEN Returned("vector")
    ELSE Returned("<undefined>")

\* BaseTypeDenoter::ToString
BaseTypeDenoter_ToString(d) ==
    IF IsScalar(d) THEN Returned("scalar")
    ELSE IF IsVector(d) THEN Returned("vector")
    ELSE IF IsMatrix(d) THEN Returned("matrix")
    ELSE Returned("<undefined>")

\* BufferTypeDenoter::ToString
BufferTypeDenoter_ToString(d) == Returned("buffer")

\* TextureTypeDenoter::ToString
TextureTypeDenoter_ToString(d) == Returned("texture")

\* SamplerTypeDenoter::ToString
SamplerTypeDenoter_ToString(d) == Returned("sampler")

\* a slip: the identifier printed without the test for the empty one
StructTypeDenoter_ToString_NoAnonymous(d) == Returned("struct " \o d.ident)

\* StructTypeDenoter::ToString
StructTypeDenoter_ToString(d) ==
    Returned("struct " \o (IF d.ident # "" THEN d.ident ELSE "<anonymous>"))

\* AliasTypeDenoter::ToString
AliasTypeDenoter_ToString(d) == Returned(d.ident)

\* the loop of ArrayTypeDenoter::ToString: typeName += "[]", n times
RECURSIVE AppendBrackets(_, _)
AppendBrackets(typeName, n) ==
    IF n = 0 THEN typeName ELSE AppendBrackets(typeName \o "[]", n - 1)

\* a slip: one pair of brackets for the array, whatever the number of dimensions
ArrayTypeDenoter_ToString_OnePair(d) ==
    IF d.baseTypeDenoter = NULL
    THEN Thrown("missing base type in array type denoter")
    ELSE LET typeName == ToString(d.baseTypeDenoter)
         IN  IF typeName.kind = "throw"
             THEN typeName
             ELSE Returned(typeName.value \o "[]")

\* ArrayTypeDenoter::ToString; an error thrown by baseTypeDenoter->ToString()
\* passes through
ArrayTypeDenoter_ToString(d) ==
    IF d.baseTypeDenoter = NULL
    THEN Thrown("missing base type in array type denoter")
    ELSE LET typeName == ToString(d.baseTypeDenoter)
         IN  IF typeName.kind = "throw"
             THEN typeName
             ELSE Returned(AppendBrackets(typeName.value, Len(d.arrayDims)))

\* d.ToString(): every class overrides it
ToString(d) ==
    CASE d.type = "Void" -> VoidTypeDenoter_ToString(d)
      [] d.type = "Base" -> BaseTypeDenoter_ToString(d)
      [] d.type = "Buffer" -> BufferTypeDenoter_ToString(d)
      [] d.type = "Texture" -> TextureTypeDenoter_ToString(d)
      [] d.type = "Sampler" -> SamplerTypeDenoter_ToString(d)
      [] d.type = "Struct" -> StructTypeDenoter_ToString(d)
      [] d.type = "Alias" -> AliasTypeDenoter_ToString(d)
      [] d.type = "Array" -> ArrayTypeDenoter_ToString(d)

(***************************************************************************)
(* The state machine of the type denoters: two denoters are constructed,   *)
(* then methods are called on them.                                        *)
(***************************************************************************)
KeywordsIdle ==
    /\ typeMap = [f \in DOMAIN KeywordFuncs |-> NotConstructed]
    /\ kwFunc = "none"
    /\ keyword = ""
    /\ kwRet = Returned("")

\* the pre-processor before any directive: PreProcessor's members as constructed
PreProcessorIdle ==
    /\ ifBlockStack_ = <<>>
    /\ wasActive = <<>>
    /\ directives = <<>>
    /\ ppState = "running"
    /\ ppError = [what |-> "", at |-> ""]

TypeDenotersIdle ==
    /\ self = VoidTypeDenoter
    /\ rhs = VoidTypeDenoter
    /\ method = "none"
    /\ ret = FALSE

InitTypeDenoter ==
    /\ self \in TypeDenoters
    /\ rhs \in TypeDenoters
    /\ method = "none"
    /\ ret = FALSE
    /\ KeywordsIdle
    /\ PreProcessorIdle

\* ret = self.IsCastableTo(rhs)
CallIsCastableTo ==
    /\ method' = "IsCastableTo"
    /\ ret' = IsCastableTo(self, rhs)
    /\ UNCHANGED <<self, rhs, typeMap, kwFunc, keyword, kwRet, ppVars>>

\* ret = self.Equals(rhs)
CallEquals ==
    /\ method' = "Equals"
    /\ ret' = Equals(self, rhs)
    /\ UNCHANGED <<self, rhs, typeMap, kwFunc, keyword, kwRet, ppVars>>

\* ret = self.ToString(), or the error it throws
CallToString ==
    /\ method' = "ToString"
    /\ ret' = ToString(self)
    /\ UNCHANGED <<self, rhs, typeMap, kwFunc, keyword, kwRet, ppVars>>

\* ret = self.Ident()
CallIdent ==
    /\ method' = "Ident"
    /\ ret' = Ident(self)
    /\ UNCHANGED <<self, rhs, typeMap, kwFunc, keyword, kwRet, ppVars>>

NextTypeDenoter == CallIsCastableTo \/ CallEquals \/ CallToString \/ CallIdent

SpecTypeDenoter == InitTypeDenoter /\ [][NextTypeDenoter]_vars

(***************************************************************************)
(* The state machine of the keyword tables: any lookup function is called  *)
(* with any spelling, any number of times.                                 *)
(***************************************************************************)
InitKeywords == TypeDenotersIdle /\ KeywordsIdle /\ PreProcessorIdle

\* one call of the lookup function f with the spelling kw
CallKeywordFunc(f, kw) ==
    LET map == StaticTypeMap(f, typeMap[f])
    IN  /\ typeMap' = [typeMap EXCEPT ![f] = map]
        /\ kwFunc' = f
        /\ keyword' = kw
        /\ kwRet' = MapKeywordToType(map.entries, kw, KeywordFuncs[f].typeName)
        /\ UNCHANGED <<self, rhs, method, ret, ppVars>>

HLSLKeywordToDataType == \E kw \in Spellings : CallKeywordFunc("HLSLKeywordToDataType", kw)

HLSLKeywordToStorageClass == \E kw \in Spellings : CallKeywordFunc("HLSLKeywordToStorageClass", kw)

HLSLKeywordToBufferType == \E kw \in Spellings : CallKeywordFunc("HLSLKeywordToBufferType", kw)

NextKeywords == HLSLKeywordToDataType \/ HLSLKeywordToStorageClass \/ HLSLKeywordToBufferType

SpecKeywords == InitKeywords /\ [][NextKeywords]_vars

(***************************************************************************)
(* Properties of the cast rules, checked under SpecTypeDenoter.            *)
(***************************************************************************)
\* C1: after self.IsCastableTo(rhs) on a Base denoter whose DataType is a
\* matrix of shape (m,n), the call returned true if and only if rhs is a Base
\* denoter whose DataType is a matrix of the same shape (m,n).
MatrixCastableIffSameShape ==
    (method = "IsCastableTo" /\ self.type = "Base" /\ IsMatrixType(self.dataType))
        => (ret = (/\ rhs.type = "Base"
                   /\ IsMatrixType(rhs.dataType)
                   /\ MatrixTypeDim(rhs.dataType) = MatrixTypeDim(self.dataType)))

\* C2: after self.IsCastableTo(rhs) on a Base denoter whose DataType is a
\* vector of arity n, the call returned true if and only if rhs is a Base
\* denoter whose DataType is a vector of the same arity, whatever its scalar
\* base type; non-vector targets and vectors of another arity are rejected.
VectorCastableIffSameArity ==
    (method = "IsCastableTo" /\ self.type = "Base" /\ IsVectorType(self.dataType))
        => (ret = (/\ rhs.type = "Base"
                   /\ IsVectorType(rhs.dataType)
                   /\ VectorTypeDim(rhs.dataType) = VectorTypeDim(self.dataType)))

\* a vector was cast to a vector of the same arity and another base type
VectorCastWitness ==
    /\ method = "IsCastableTo"
    /\ self = BaseTypeDenoter("Float3")
    /\ rhs = BaseTypeDenoter("Bool3")
    /\ ret = TRUE

\* C3: after self.IsCastableTo(rhs) on a scalar Base denoter, the call
\* returned true exactly when rhs is a Base denoter or a Struct denoter, and
\* false for Void, Buffer, Texture, Sampler, Alias and Array targets.
ScalarCastableToBaseOrStruct ==
    (method = "IsCastableTo" /\ self.type = "Base" /\ IsScalarType(self.dataType))
        => /\ rhs.type \in {"Base", "Struct"} => ret = TRUE
           /\ rhs.type \in {"Void", "Buffer", "Texture", "Sampler", "Alias", "Array"}
                  => ret = FALSE

\* a scalar was cast to a struct
ScalarCastWitness ==
    /\ method = "IsCastableTo"
    /\ self = BaseTypeDenoter("Int")
    /\ rhs.type = "Struct"
    /\ ret = TRUE

\* C4: after self.IsCastableTo(rhs) on a Void denoter the call returned
\* false, for every target of every variant, another Void denoter included.
VoidCastableToNothing ==
    (method = "IsCastableTo" /\ self.type = "Void") => ret = FALSE

\* Void was refused the cast to Void
VoidCastWitness ==
    /\ method = "IsCastableTo"
    /\ self.type = "Void"
    /\ rhs.type = "Void"
    /\ ret = FALSE

\* C5: after self.IsCastableTo(rhs) on a Buffer, Texture, Sampler, Struct,
\* Alias or Array denoter, the call returned true if and only if rhs has the
\* variant of self, whatever the payloads.
DefaultCastableIffSameVariant ==
    (method = "IsCastableTo"
        /\ self.type \in {"Buffer", "Texture", "Sampler", "Struct", "Alias", "Array"})
        => (ret = (rhs.type = self.type))

\* a struct was cast to a struct of another identifier
DefaultCastWitness ==
    /\ method = "IsCastableTo"
    /\ self = StructTypeDenoterFromIdent("A")
    /\ rhs = StructTypeDenoterFromIdent("B")
    /\ ret = TRUE

(***************************************************************************)
(* Properties of Equals, checked under SpecTypeDenoter.                    *)
(***************************************************************************)
\* C6: Equals is an equivalence relation that never relates two variants:
\* after self.Equals(rhs), the call returned true if rhs is self; it returned
\* what rhs.Equals(self) returns; if it returned true, every denoter c that
\* rhs equals is one that self equals; and if it returned true, self and rhs
\* have the same Type().
EqualsIsEquivalence ==
    method = "Equals"
        => /\ self = rhs => ret = TRUE
           /\ ret = Equals(rhs, self)
           /\ ret = TRUE => \A c \in TypeDenoters : Equals(rhs, c) => Equals(self, c)
           /\ ret = TRUE => Type(self) = Type(rhs)

\* two distinct denoters of one variant were found equal
EqualsWitness ==
    /\ method = "Equals"
    /\ self = BufferTypeDenoter("Buffer")
    /\ rhs = BufferTypeDenoter("RWStucturedBuffer")
    /\ ret = TRUE

\* C7: after self.Equals(rhs) on two Struct denoters, or on two Alias
\* denoters, the call returned true if and only if self.Ident() = rhs.Ident().
EqualsIffSameIdent ==
    (method = "Equals" /\ self.type \in {"Struct", "Alias"} /\ rhs.type = self.type)
        => (ret = (Ident(self) = Ident(rhs)))

\* two lists of array dimensions are equal: the same length, and the same
\* constant at every position where both constants are known
ArrayDimsEqual(a, b) ==
    /\ Len(a) = Len(b)
    /\ \A i \in 1..Len(a) : (a[i] # 0 /\ b[i] # 0) => a[i] = b[i]

\* two inner denoters are equal: both null, or neither and a.Equals(b)
InnerEquals(a, b) ==
    IF a = NULL \/ b = NULL THEN a = b ELSE Equals(a, b)

\* C8: after self.Equals(rhs) on two Array denoters, the call returned true if
\* and only if their inner denoters are equal and their dimension lists have
\* the same length (and equal constants position by position when known).
ArrayEqualsIffSameInnerAndDims ==
    (method = "Equals" /\ self.type = "Array" /\ rhs.type = "Array")
        => (ret = (/\ InnerEquals(self.baseTypeDenoter, rhs.baseTypeDenoter)
                   /\ ArrayDimsEqual(self.arrayDims, rhs.arrayDims)))

(***************************************************************************)
(* Properties of the keyword lookups, checked under SpecKeywords.          *)
(***************************************************************************)
\* how HLSLKeywordToDataType(kw) ends
DataTypeOf(kw) ==
    MapKeywordToType(KeywordFuncs["HLSLKeywordToDataType"].typeMap, kw, "data type")

\* the spellings of the scalar base types
ScalarSpellings == {"bool", "int", "uint", "half", "float", "double"}

\* C9: HLSLKeywordToDataType folds aliases.  After a call with the spelling
\* B, B1 or B1x1 of a scalar base B, it returned a scalar DataType, the one it
\* returns for B; after a call with dword, dword1 or dword1x1 it returned
\* UInt; after a call with dwordi it returned what it returns for uinti; and
\* after a call with dwordMxN it returned what it returns for uintMxN.
DataTypeAliasesFold ==
    kwFunc = "HLSLKeywordToDataType"
        => /\ \A b \in ScalarSpellings :
                  keyword \in {b, b \o "1", b \o "1x1"}
                      => /\ kwRet.kind = "return"
                         /\ IsScalarType(kwRet.value)
                         /\ kwRet = DataTypeOf(b)
           /\ keyword \in {"dword", "dword1", "dword1x1"} => kwRet = Returned("UInt")
           /\ \A i \in 2..4 :
                  keyword = "dword" \o DimDigit[i]
                      => /\ kwRet.kind = "return"
                         /\ IsVectorType(kwRet.value)
                         /\ kwRet = DataTypeOf("uint" \o DimDigit[i])
           /\ \A m \in 2..4, n \in 2..4 :
                  keyword = "dword" \o DimDigit[m] \o "x" \o DimDigit[n]
                      => /\ kwRet.kind = "return"
                         /\ IsMatrixType(kwRet.value)
                         /\ kwRet = DataTypeOf("uint" \o DimDigit[m] \o "x" \o DimDigit[n])

\* the lookup of a dword matrix returned the uint matrix
DataTypeAliasWitness ==
    /\ kwFunc = "HLSLKeywordToDataType"
    /\ keyword = "dword3x4"
    /\ kwRet = Returned("UInt3x4")

\* the initializer list and the category name of each lookup function
LookupTable(f) ==
    IF f = "HLSLKeywordToDataType" THEN <<GenerateDataTypeMap, "data type">>
    ELSE IF f = "HLSLKeywordToStorageClass" THEN <<GenerateStorageClassMap, "storage class">>
    ELSE <<GenerateBufferTypeMap, "buffer type">>

\* C10: after a call of HLSLKeywordToDataType, HLSLKeywordToStorageClass or
\* HLSLKeywordToBufferType, the call returned the value its table pairs with
\* the spelling if the spelling is a key of the table, and otherwise threw the
\* error "failed to map keyword '<spelling>' to <category>", which holds the
\* rejected spelling and the category name; and every table, once built, holds
\* exactly the pairs of its initializer list, after failed lookups too.
LookupReturnsOrFails ==
    /\ \A f \in DOMAIN typeMap :
           typeMap[f].constructed
               => /\ DOMAIN typeMap[f].entries = Keys(LookupTable(f)[1])
                  /\ \A i \in DOMAIN LookupTable(f)[1] :
                         typeMap[f].entries[LookupTable(f)[1][i][1]]
                             = LookupTable(f)[1][i][2]
    /\ kwFunc # "none"
           => LET list == LookupTable(kwFunc)[1]
                  category == LookupTable(kwFunc)[2]
              IN  /\ typeMap[kwFunc].constructed
                  /\ IF \E i \in DOMAIN list : list[i][1] = keyword
                     THEN /\ kwRet.kind = "return"
                          /\ \E i \in DOMAIN list : list[i] = <<keyword, kwRet.value>>
                     ELSE kwRet =
                              Thrown("failed to map keyword '" \o keyword
                                         \o "' to " \o category)

\* a lookup of a spelling that is a keyword, yet no key of the table, failed
LookupFailsWitness ==
    /\ kwFunc = "HLSLKeywordToBufferType"
    /\ keyword = "StructuredBuffer"
    /\ kwRet = Thrown("failed to map keyword 'StructuredBuffer' to buffer type")

(***************************************************************************)
(* Properties of ToString and Ident, checked under SpecTypeDenoter.        *)
(***************************************************************************)
\* C11: after self.ToString() on a Struct denoter, the call returned
\* "struct " followed by the identifier if the identifier is not empty (the
\* name of the declaration, for a denoter constructed from one), and exactly
\* "struct <anonymous>" if it is empty (so for a denoter constructed from a
\* null declaration reference); and after self.Ident() on a Struct denoter
\* constructed from a non-null declaration, the call returned the
\* declaration's name.
StructToStringAndIdent ==
    /\ (method = "ToString" /\ self.type = "Struct")
           => /\ self.ident # "" => ret = Returned("struct " \o self.ident)
              /\ self.ident = "" => ret = Returned("struct <anonymous>")
              /\ self.structDeclRef # NULL
                     => ret = Returned("struct " \o self.structDeclRef.name)
              /\ self = StructTypeDenoterFromDecl(NULL)
                     => ret = Returned("struct <anonymous>")
    /\ (method = "Ident" /\ self.type = "Struct" /\ self.structDeclRef # NULL)
           => ret = self.structDeclRef.name

\* a struct constructed from a null declaration reference was printed
StructToStringWitness ==
    /\ method = "ToString"
    /\ self = StructTypeDenoterFromDecl(NULL)
    /\ ret = Returned("struct <anonymous>")

\* n copies of "[]"
RECURSIVE BracketPairs(_)
BracketPairs(n) == IF n = 0 THEN "" ELSE "[]" \o BracketPairs(n - 1)

\* C12: after self.ToString() on an Array denoter with k dimension entries:
\* with a null inner denoter the call threw an error; with an inner denoter T
\* whose ToString() returns, it returned T.ToString() followed by exactly k
\* copies of "[]" (and threw if T.ToString() throws); over an Array with j
\* dimensions over T0 it returned T0.ToString() followed by j+k copies; and a
\* 2-dimensional array over Alias "Color" printed "Color[][]".
ArrayToStringAppendsBrackets ==
    (method = "ToString" /\ self.type = "Array")
        => LET k == Len(self.arrayDims)
               T == self.baseTypeDenoter
           IN  IF T = NULL
               THEN ret.kind = "throw"
               ELSE /\ ToString(T).kind = "throw" => ret.kind = "throw"
                    /\ ToString(T).kind = "return"
                           => ret = Returned(ToString(T).value \o BracketPairs(k))
                    /\ (T.type = "Array" /\ T.baseTypeDenoter # NULL)
                           => ret = Returned(ToString(T.baseTypeDenoter).value
                                                 \o BracketPairs(Len(T.arrayDims) + k))
                    /\ (T = AliasTypeDenoter("Color") /\ k = 2)
                           => ret = Returned("Color[][]")

\* an array of two dimensions over an array of two dimensions was printed
ArrayToStringWitness ==
    /\ method = "ToString"
    /\ self = ArrayTypeDenoter(ArrayTypeDenoter(AliasTypeDenoter("Color"), <<0, 0>>), <<1, 0>>)
    /\ ret = Returned("Color[][][][]")

\* C13, as claimed: after self.ToString() on a Base denoter over any DataType,
\* String included, the call returned "scalar", "vector" or "matrix", the one
\* of the predicate IsScalar(), IsVector(), IsMatrix() that is true of it, and
\* never another string.
BaseToStringNamesItsForm ==
    (method = "ToString" /\ self.type = "Base")
        => /\ ret.kind = "return"
           /\ ret.value \in {"scalar", "vector", "matrix"}
           /\ (ret.value = "scalar") = IsScalar(self)
           /\ (ret.value = "vector") = IsVector(self)
           /\ (ret.value = "matrix") = IsMatrix(self)

\* C13, amended: after self.ToString() on a Base denoter over a scalar, vector
\* or matrix DataType, the call returned "scalar", "vector" or "matrix", the
\* one of the predicate that is true of it; over String, of which none of the
\* three predicates is true, it returned "<undefined>".
BaseToStringNamesItsFormOrUndefined ==
    (method = "ToString" /\ self.type = "Base")
        => /\ ret.kind = "return"
           /\ (ret.value = "scalar") = IsScalar(self)
           /\ (ret.value = "vector") = IsVector(self)
           /\ (ret.value = "matrix") = IsMatrix(self)
           /\ self.dataType # "String" => ret.value \in {"scalar", "vector", "matrix"}
           /\ self.dataType = "String" => ret.value = "<undefined>"

\* the Base denoter over String was printed
BaseToStringWitness ==
    /\ method = "ToString"
    /\ self = BaseTypeDenoter("String")
    /\ ret = Returned("<undefined>")

(***************************************************************************)
(* Consistency of the keyword map and the buffer type map, checked under   *)
(* SpecKeywords.                                                           *)
(***************************************************************************)
\* the spelling is a keyword that HLSLKeywords() classifies as StorageBuffer or Texture
IsBufferOrTextureKeyword(kw) ==
    kw \in DOMAIN HLSLKeywords /\ HLSLKeywords[kw] \in {"StorageBuffer", "Texture"}

\* C17: after a call of HLSLKeywordToBufferType, the call returned a value
\* (and did not throw the lookup error) if the spelling is a keyword of kind
\* StorageBuffer or Texture, and only then: every such keyword is a key of the
\* BufferType table, and every key of the table is such a keyword.
KeywordAndBufferTablesAgree ==
    kwFunc = "HLSLKeywordToBufferType"
        => (kwRet.kind = "return") = IsBufferOrTextureKeyword(keyword)

(***************************************************************************)
(* PreProcessor.h: the stack of if-blocks.  The header declares IfBlock,   *)
(* PushIfBlock, PopIfBlock, TopIfBlock and ifBlockStack_; the directive    *)
(* handlers follow the rules of conditional compilation: an opening        *)
(* directive pushes an if-block, #elif and #else replace the top one,      *)
(* #endif pops it, and a branch is active iff its parent is active, its    *)
(* condition held and no earlier branch of its group was active.  The      *)
(* members directiveToken and directiveSource of IfBlock, which only       *)
(* diagnostics read, are left out.                                         *)
(***************************************************************************)
\* longest sequence of conditional directives of one run
MaxDirectives == 5

\* a slip: an if-block that is inactive by default
IfBlock_Inactive == [active |-> FALSE, expectEndif |-> FALSE]

\* struct IfBlock: the default member initializers
IfBlock == [active |-> TRUE, expectEndif |-> FALSE]

\* a slip: the default argument of expectEndif written as true
PushIfBlock_expectEndif_True == TRUE

\* PushIfBlock(directiveToken, active = false, expectEndif = false): the
\* default argument for expectEndif
PushIfBlock_expectEndif == FALSE

\* std::stack<IfBlock>: push, top, empty
StackPush(stack, x) == Append(stack, x)

StackTop(stack) == stack[Len(stack)]

StackEmpty(stack) == stack = <<>>

\* a slip: the whole stack dropped instead of its top
StackPop_All(stack) == <<>>

\* std::stack<IfBlock>: pop
StackPop(stack) == SubSeq(stack, 1, Len(stack) - 1)

\* TopIfBlock(): the top of the stack; the default state if the stack is empty
TopIfBlock(stack) == IF StackEmpty(stack) THEN IfBlock ELSE StackTop(stack)

\* PushIfBlock: the new block is active only inside an active block
PushIfBlock(stack, active, expectEndif) ==
    StackPush(stack, [active |-> TopIfBlock(stack).active /\ active,
                      expectEndif |-> expectEndif])

\* PopIfBlock
PopIfBlock(stack) == StackPop(stack)

\* an error raised at a directive ends the run; the stack stays as it is
RaiseError(what, at) ==
    /\ ppState' = "failed"
    /\ ppError' = [what |-> what, at |-> at]
    /\ UNCHANGED <<ifBlockStack_, wasActive, directives>>

\* a directive was accepted: it joins the directives seen so far
Accept(name, cond) ==
    /\ Len(directives) < MaxDirectives
    /\ directives' = Append(directives, [name |-> name, cond |-> cond])
    /\ UNCHANGED <<ppState, ppError>>

\* #if, #ifdef, #ifndef: push an if-block for the condition
OpenIfBlock(name, cond) ==
    /\ ppState = "running"
    /\ Accept(name, cond)
    /\ ifBlockStack_' = PushIfBlock(ifBlockStack_, cond, PushIfBlock_expectEndif)
    /\ wasActive' = Append(wasActive, FALSE)
    /\ UNCHANGED <<self, rhs, method, ret, typeMap, kwFunc, keyword, kwRet>>

\* #if <expression>: the condition is the value of the expression
ParseDirectiveIf == \E cond \in BOOLEAN : OpenIfBlock("if", cond)

\* #ifdef <ident>: the condition is IsDefined(ident)
ParseDirectiveIfdef == \E isDefined \in BOOLEAN : OpenIfBlock("ifdef", isDefined)

\* #ifndef <ident>: the condition is !IsDefined(ident)
ParseDirectiveIfndef == \E isDefined \in BOOLEAN : OpenIfBlock("ifndef", ~isDefined)

\* #elif and #else: the top block is replaced by the block of the next branch,
\* which is active only if no branch of the group was active so far
NextBranch(name, cond, expectEndif) ==
    IF StackEmpty(ifBlockStack_)
    THEN RaiseError("missing #if", name)
    ELSE IF TopIfBlock(ifBlockStack_).expectEndif
    THEN RaiseError("expected #endif", name)
    ELSE LET anyActive == wasActive[Len(wasActive)] \/ TopIfBlock(ifBlockStack_).active
         IN  /\ Accept(name, cond)
             /\ ifBlockStack_' =
                    PushIfBlock(PopIfBlock(ifBlockStack_), cond /\ ~anyActive, expectEndif)
             /\ wasActive' = [wasActive EXCEPT ![Len(wasActive)] = anyActive]

\* #elif <expression>
ParseDirectiveElif ==
    /\ ppState = "running"
    /\ \E cond \in BOOLEAN : NextBranch("elif", cond, PushIfBlock_expectEndif)
    /\ UNCHANGED <<self, rhs, method, ret, typeMap, kwFunc, keyword, kwRet>>

\* #else: the complement of the branches before it; from now on #endif is expected
ParseDirectiveElse ==
    /\ ppState = "running"
    /\ NextBranch("else", TRUE, TRUE)
    /\ UNCHANGED <<self, rhs, method, ret, typeMap, kwFunc, keyword, kwRet>>

\* #endif: pop the if-block
ParseDirectiveEndif ==
    /\ ppState = "running"
    /\ IF StackEmpty(ifBlockStack_)
       THEN RaiseError("missing #if", "endif")
       ELSE /\ Accept("endif", TRUE)
            /\ ifBlockStack_' = PopIfBlock(ifBlockStack_)
            /\ wasActive' = SubSeq(wasActive, 1, Len(wasActive) - 1)
    /\ UNCHANGED <<self, rhs, method, ret, typeMap, kwFunc, keyword, kwRet>>

\* the end of the input: an if-block still open is an error
EndOfInput ==
    /\ ppState = "running"
    /\ IF StackEmpty(ifBlockStack_)
       THEN /\ ppState' = "done"
            /\ UNCHANGED <<ifBlockStack_, wasActive, directives, ppError>>
       ELSE RaiseError("missing #endif", "EOF")
    /\ UNCHANGED <<self, rhs, method, ret, typeMap, kwFunc, keyword, kwRet>>

InitPreProcessor == TypeDenotersIdle /\ KeywordsIdle /\ PreProcessorIdle

NextPreProcessor ==
    \/ ParseDirectiveIf
    \/ ParseDirectiveIfdef
    \/ ParseDirectiveIfndef
    \/ ParseDirectiveElif
    \/ ParseDirectiveElse
    \/ ParseDirectiveEndif
    \/ EndOfInput

SpecPreProcessor == InitPreProcessor /\ [][NextPreProcessor]_vars

(***************************************************************************)
(* Properties of the if-block stack, checked under SpecPreProcessor.  They *)
(* are stated on the directives accepted so far.                           *)
(***************************************************************************)
IsOpeningDirective(d) == d.name \in {"if", "ifdef", "ifndef"}

\* the groups open after a sequence of directives, the innermost last; a
\* group is the sequence of its branches so far, the opening directive first
RECURSIVE OpenGroups(_)
OpenGroups(ds) ==
    IF ds = <<>>
    THEN <<>>
    ELSE LET before == OpenGroups(SubSeq(ds, 1, Len(ds) - 1))
             d == ds[Len(ds)]
         IN  IF IsOpeningDirective(d) THEN Append(before, <<d>>)
             ELSE IF before = <<>> THEN before
             ELSE IF d.name = "endif" THEN SubSeq(before, 1, Len(before) - 1)
             ELSE [before EXCEPT ![Len(before)] = Append(@, d)]

\* the n-th branch of a group is active: the parent is, its condition held
\* (an #else has none to hold), and no branch before it was active
RECURSIVE BranchActive(_, _, _)
BranchActive(group, parentActive, n) ==
    /\ parentActive
    /\ group[n].cond
    /\ \A m \in 1..(n - 1) : ~BranchActive(group, parentActive, m)

OpeningDirectives(ds) == {k \in 1..Len(ds) : IsOpeningDirective(ds[k])}

EndifDirectives(ds) == {k \in 1..Len(ds) : ds[k].name = "endif"}

\* C15: each #if/#ifdef/#ifndef pushes exactly one if-block and each #endif
\* pops exactly one (the stack is as high as the opening directives less the
\* #endif accepted so far), so after a balanced sequence the stack is empty,
\* at the end of the input too; an #else, #elif or #endif is accepted only on
\* a non-empty stack and is the error "missing #if" on an empty one; and the
\* end of the input is accepted only on an empty stack and is the error
\* "missing #endif" on a non-empty one.
IfBlockStackBalanced ==
    LET opened == Cardinality(OpeningDirectives(directives))
        closed == Cardinality(EndifDirectives(directives))
    IN  /\ Len(ifBlockStack_) = opened - closed
        /\ opened = closed => ifBlockStack_ = <<>>
        /\ ppState = "done" => (ifBlockStack_ = <<>> /\ opened = closed)
        /\ \A k \in 1..Len(directives) :
               ~IsOpeningDirective(directives[k])
                   => OpenGroups(SubSeq(directives, 1, k - 1)) # <<>>
        /\ (ppState = "failed" /\ ifBlockStack_ = <<>>)
               => (ppError.what = "missing #if" /\ ppError.at \in {"elif", "else", "endif"})
        /\ (ppState = "failed" /\ ppError.at = "EOF")
               => (ppError.what = "missing #endif" /\ ifBlockStack_ # <<>>)

\* a balanced sequence with a nested group reached the end of the input
IfBlockStackWitness ==
    /\ ppState = "done"
    /\ Len(directives) = 5
    /\ directives[2].name = "ifdef"
    /\ directives[3].name = "else"
    /\ ifBlockStack_ = <<>>

\* C16: within a group expectEndif is false from the opening directive until
\* the first #else and true from then on (the block's flag says whether the
\* group's last branch is an #else); an #elif or a second #else that arrives
\* while it is true is rejected with an error, so no accepted group has a
\* branch after its #else: at most one #else, and no #elif after it.
ExpectEndifOnceElseSeen ==
    LET groups == OpenGroups(directives)
    IN  /\ Len(ifBlockStack_) = Len(groups)
        /\ \A i \in 1..Len(ifBlockStack_) :
               /\ ifBlockStack_[i].expectEndif
                      = (groups[i][Len(groups[i])].name = "else")
               /\ \A n \in 1..(Len(groups[i]) - 1) : groups[i][n].name # "else"
        /\ (ppState = "failed" /\ ppError.what = "expected #endif")
               => /\ TopIfBlock(ifBlockStack_).expectEndif
                  /\ ppError.at \in {"elif", "else"}
        /\ (ppState = "failed" /\ ppError.what # "expected #endif"
                /\ ppError.at \in {"elif", "else"})
               => ~TopIfBlock(ifBlockStack_).expectEndif

\* an #elif that arrived after the #else of its group was rejected
ExpectEndifWitness ==
    /\ ppState = "failed"
    /\ ppError = [what |-> "expected #endif", at |-> "elif"]
    /\ Len(directives) = 3
    /\ directives[3].name = "else"

====
